---- MODULE Spec2Model ----
(***************************************************************************)
(* The Fourthwall storefront client, lib/fourthwall/index.ts: two          *)
(* transport helpers (fourthwallGet, fourthwallPost) and the eight         *)
(* exported asynchronous operations built on them.  An invocation is       *)
(* followed through its suspension points: the call up to fetch(), the     *)
(* settlement of fetch(), the settlement of result.json(), and the         *)
(* settlement of the operation's own promise.                              *)
(*                                                                         *)
(* JavaScript values are tagged records; a URL is a path (the segments of  *)
(* the template literal) and the list of its search parameters.            *)
(***************************************************************************)
EXTENDS Integers, Sequences, FiniteSets, TLC

VARIABLES pc, call, frame, request, response, res, fault, outcome, sent, fetchCount

vars == <<pc, call, frame, request, response, res, fault, outcome, sent, fetchCount>>

(* ------------------------------ bounds --------------------------------- *)

MaxLines == 2

MaxResults == 2

MaxFetches == 2

(* --------------------------- JavaScript values ------------------------- *)

Undefined == [t |-> "undefined"]

Null == [t |-> "null"]

Str(s) == [t |-> "string", s |-> s]

Num(n) == [t |-> "number", n |-> n]

Arr(elems) == [t |-> "array", elems |-> elems]

EmptyObject == [t |-> "object"]

None == [t |-> "none"]

NoCall == [op |-> "none"]

\* v.k for a JavaScript value v: reading a property of undefined or null
\* throws a TypeError, a property an object lacks reads as undefined.
Nullish(v) == v.t \in {"undefined", "null"}

Get(v, k) == IF v.t = "object" /\ k \in DOMAIN v THEN v[k] ELSE Undefined

\* !v
Falsy(v) ==
    \/ Nullish(v)
    \/ v = Str("")
    \/ v = Num(0)

TypeError == [name |-> "TypeError", message |-> "Cannot read properties"]

Return(v) == [kind |-> "return", value |-> v]

Throw(e) == [kind |-> "throw", value |-> e]

Pending == [kind |-> "pending"]

SeqsUpTo(S, n) == UNION {[1..k -> S] : k \in 0..n}

NoFields == [k \in {} |-> k]

\* {...a, ...b}: the later spread wins.
Spread(a, b) == b @@ a

(* ----------------------------- configuration --------------------------- *)

API_URL == "https://storefront-api.fourthwall.com"

STOREFRONT_TOKEN == "ptkn_storefront"

(* ------------------------------- URLs ---------------------------------- *)

\* A template literal `${a}/${b}/...`: the segments in order, no query part.
Url(segments) == [path |-> segments, search |-> <<>>]

Param(k, v) == [key |-> k, value |-> v]

Digit == <<"0", "1", "2", "3", "4", "5", "6", "7", "8", "9">>

\* query[key].toString(): a string is itself, a number its decimal digits.
toString(v) == IF v.t = "number" THEN Digit[v.n + 1] ELSE v.s

\* A fourthwallGet that tests the value's truth instead of `!== undefined`.
RECURSIVE AppendDefined_truthy(_, _)
AppendDefined_truthy(search, query) ==
    IF query = <<>> THEN search
    ELSE AppendDefined_truthy(
            IF ~Falsy(query[1].value)
            THEN Append(search, Param(query[1].key, toString(query[1].value)))
            ELSE search,
            Tail(query))

\* Object.keys(query).forEach(...): the entries in insertion order, those whose
\* value is undefined skipped, each value converted with toString().
RECURSIVE AppendDefined(_, _)
AppendDefined(search, query) ==
    IF query = <<>> THEN search
    ELSE AppendDefined(
            IF query[1].value # Undefined
            THEN Append(search, Param(query[1].key, toString(query[1].value)))
            ELSE search,
            Tail(query))

ContentType == ("Content-Type" :> "application/json")

\* ...options.headers: spreading an absent headers object adds nothing.
HeadersOf(options) ==
    IF "headers" \in DOMAIN options THEN options.headers ELSE NoFields

\* JSON.stringify(data): properties whose value is undefined are dropped, an
\* undefined array element is written as null.
RECURSIVE Serialize(_)
Serialize(v) ==
    CASE v.t = "array" ->
           Arr([i \in DOMAIN v.elems |->
                  IF v.elems[i] = Undefined THEN Null ELSE Serialize(v.elems[i])])
      [] v.t = "object" ->
           [k \in {f \in DOMAIN v : f = "t" \/ v[f] # Undefined} |->
                  IF k = "t" THEN "object" ELSE Serialize(v[k])]
      [] OTHER -> v

JSON_stringify(data) == [t |-> "json", text |-> Serialize(data)]

(* --------------------------- transport helpers ------------------------- *)

\* fourthwallGet up to its await of fetch(): the URL with the defined query
\* parameters and then the token, and the request init.
fourthwallGet(url, query, options) ==
    /\ frame' = [fn |-> "fourthwallGet", url |-> url]
    /\ request' =
         [url |-> [path |-> url.path,
                   search |-> Append(AppendDefined(url.search, query),
                                     Param("storefront_token", STOREFRONT_TOKEN))],
          init |-> Spread(Spread([method |-> "GET"], options),
                          [headers |-> Spread(ContentType, HeadersOf(options))])]
    /\ pc' = "fetch"
    /\ sent' = sent + 1
    /\ fetchCount' = fetchCount + 1
    /\ UNCHANGED <<response, res, fault, outcome>>

\* fourthwallPost up to its await of fetch().
fourthwallPost(url, data, options) ==
    /\ frame' = [fn |-> "fourthwallPost", url |-> url, data |-> data]
    /\ request' =
         [url |-> [path |-> url.path,
                   search |-> Append(url.search,
                                     Param("storefront_token", STOREFRONT_TOKEN))],
          init |-> Spread(Spread([method |-> "POST"], options),
                          [headers |-> Spread(ContentType, HeadersOf(options)),
                           body |-> JSON_stringify(data)])]
    /\ pc' = "fetch"
    /\ sent' = sent + 1
    /\ fetchCount' = fetchCount + 1
    /\ UNCHANGED <<response, res, fault, outcome>>

\* A catch block that throws the cause without the URL.
Caught_noUrl(fr, e) ==
    IF fr.fn = "fourthwallGet"
    THEN [error |-> e]
    ELSE [error |-> e, data |-> fr.data]

\* A catch block that throws without the payload.
Caught_noData(fr, e) == [error |-> e, url |-> fr.url]

\* The helpers' catch blocks: what is thrown for a caught e.
Caught(fr, e) ==
    IF fr.fn = "fourthwallGet"
    THEN [error |-> e, url |-> fr.url]
    ELSE [error |-> e, url |-> fr.url, data |-> fr.data]

(* ------------------------- the reshape collaborators ------------------- *)

\* ./reshape: an absent or empty provider body is no product.
reshapeProduct(product) ==
    IF Nullish(product) \/ product = EmptyObject
    THEN Undefined
    ELSE [t |-> "object", product |-> product]

reshapeProducts(products) ==
    Arr([i \in DOMAIN products.elems |-> reshapeProduct(products.elems[i])])

reshapeCart(cart) == [t |-> "object", cart |-> cart]

(* ------------------------------- inputs -------------------------------- *)

CartIds == {"cart1", "cart2"}

AbsentCartIds == {Undefined, Str("")}

Currencies == {"USD", "EUR"}

Slugs == {"tees", "mugs"}

Limits == {Undefined, Num(0), Num(5)}

Variants == {"v1", "v2"}

Quantities == {0, 2}

LineIds == {"l1", "l2"}

AddLines ==
    {[t |-> "object", merchandiseId |-> Str(m), quantity |-> Num(q)] :
        m \in Variants, q \in Quantities}

UpdateLine(i, m, q) ==
    [t |-> "object", id |-> Str(i), merchandiseId |-> Str(m), quantity |-> Num(q)]

UpdateLines ==
    {UpdateLine(i, m, 2) : i \in LineIds, m \in Variants}
        \cup {UpdateLine("l1", "v1", 0)}

\* What the provider may answer.
ProviderRecords ==
    {[t |-> "object", slug |-> Str("tees"), name |-> Str("T-Shirts"),
      description |-> Str("d")],
     [t |-> "object", slug |-> Str("mugs"), name |-> Str("Mugs"),
      description |-> Str("m")]}

Bodies ==
    {Undefined, Null, EmptyObject}
        \cup ProviderRecords
        \cup {[t |-> "object", results |-> Arr(rs)] :
                rs \in SeqsUpTo(ProviderRecords, MaxResults)}

Statuses == {200, 404, 500}

\* The response text: nothing at all, something that is not JSON, or the
\* JSON text of a value.
Texts ==
    {[raw |-> "empty"], [raw |-> "html"]}
        \cup {[raw |-> "json", value |-> b] : b \in Bodies}

NetworkErrors == {[name |-> "TypeError", message |-> "fetch failed"]}

\* result.json() on a text that is not JSON.
SyntaxErrorOf(text) ==
    [name |-> "SyntaxError",
     message |-> IF text.raw = "empty" THEN "Unexpected end of JSON input"
                 ELSE "Unexpected token <"]

(* ------------------- the operations, after the helper returns ---------- *)

\* A mapping that takes the title from the slug.
toCollection_titleFromSlug(collection) ==
    [t |-> "object",
     handle |-> Get(collection, "slug"),
     title |-> Get(collection, "slug"),
     description |-> Get(collection, "description")]

toCollection(collection) ==
    [t |-> "object",
     handle |-> Get(collection, "slug"),
     title |-> Get(collection, "name"),
     description |-> Get(collection, "description")]

\* res.body.results.map(...)
getCollectionsAfter(r) ==
    IF Nullish(r.body) THEN Throw(TypeError)
    ELSE LET results == Get(r.body, "results") IN
         IF results.t # "array" THEN Throw(TypeError)
         ELSE IF \E i \in DOMAIN results.elems : Nullish(results.elems[i])
         THEN Throw(TypeError)
         ELSE Return(Arr([i \in DOMAIN results.elems |-> toCollection(results.elems[i])]))

\* if (!res.body.results) return []; return reshapeProducts(res.body.results)
getCollectionProductsAfter(r) ==
    IF Nullish(r.body) THEN Throw(TypeError)
    ELSE LET results == Get(r.body, "results") IN
         IF Falsy(results) THEN Return(Arr(<<>>))
         ELSE Return(reshapeProducts(results))

\* A getProduct that returns the body as it came.
getProductAfter_raw(r) == Return(r.body)

getProductAfter(r) == Return(reshapeProduct(r.body))

getCartAfter(r) == Return(reshapeCart(r.body))

createCartAfter(r) == Return(reshapeCart(r.body))

addToCartAfter(r) == Return(reshapeCart(r.body))

removeFromCartAfter(r) == Return(reshapeCart(r.body))

updateCartAfter(r) == Return(reshapeCart(r.body))

After(c, r) ==
    CASE c.op = "getCollections" -> getCollectionsAfter(r)
      [] c.op = "getCollectionProducts" -> getCollectionProductsAfter(r)
      [] c.op = "getProduct" -> getProductAfter(r)
      [] c.op = "getCart" -> getCartAfter(r)
      [] c.op = "createCart" -> createCartAfter(r)
      [] c.op = "addToCart" -> addToCartAfter(r)
      [] c.op = "removeFromCart" -> removeFromCartAfter(r)
      [] c.op = "updateCart" -> updateCartAfter(r)

(* ------------------------------- the state ----------------------------- *)
(* pc         where the invocation in progress is suspended: "idle" (none),   *)
(*            "fetch" (awaiting fetch), "json" (awaiting result.json()),     *)
(*            "settled" (the operation's promise is fulfilled or rejected)   *)
(* call       the operation invoked and its arguments                        *)
(* frame      the helper's parameters, which its catch block reads           *)
(* request    what was handed to fetch(): the URL and the request init       *)
(* response   the response's status and text                                 *)
(* res        what the helper returned: {status, body}                       *)
(* fault      what fetch() or result.json() rejected with                    *)
(* outcome    how the operation's promise settled                            *)
(* sent       fetch() calls made by the invocation in progress               *)
(* fetchCount fetch() calls made so far                                      *)

Init ==
    /\ pc = "idle"
    /\ call = NoCall
    /\ frame = None
    /\ request = None
    /\ response = None
    /\ res = None
    /\ fault = None
    /\ outcome = Pending
    /\ sent = 0
    /\ fetchCount = 0

CanFetch == pc = "idle" /\ fetchCount < MaxFetches

(* ------------------------------ operations ----------------------------- *)

getCollections ==
    /\ CanFetch
    /\ call' = [op |-> "getCollections"]
    /\ fourthwallGet(Url(<<API_URL, "api", "public", "v1.0", "collections">>),
                     <<>>, NoFields)

getCollectionProducts(collection, currency, limit) ==
    /\ CanFetch
    /\ call' = [op |-> "getCollectionProducts", collection |-> collection,
                currency |-> currency, limit |-> limit]
    /\ fourthwallGet(Url(<<API_URL, "v1", "collections", collection, "products">>),
                     <<Param("currency", Str(currency)), Param("limit", limit)>>,
                     NoFields)

getProduct(handle, currency) ==
    /\ CanFetch
    /\ call' = [op |-> "getProduct", handle |-> handle, currency |-> currency]
    /\ fourthwallGet(Url(<<API_URL, "v1", "products", handle>>),
                     <<Param("currency", Str(currency))>>, NoFields)

\* A getCart that short-circuits on undefined only.
getCart_undefinedOnly(cartId, currency) ==
    /\ pc = "idle"
    /\ call' = [op |-> "getCart", cartId |-> cartId, currency |-> currency]
    /\ \/ /\ cartId = Undefined
          /\ outcome' = Return(Undefined)
          /\ pc' = "settled"
          /\ UNCHANGED <<frame, request, response, res, fault, sent, fetchCount>>
       \/ /\ cartId # Undefined
          /\ fetchCount < MaxFetches
          /\ fourthwallGet(Url(<<API_URL, "v1", "carts", cartId.s>>),
                           <<Param("currency", Str(currency))>>,
                           [cache |-> "no-store"])

getCart(cartId, currency) ==
    /\ pc = "idle"
    /\ call' = [op |-> "getCart", cartId |-> cartId, currency |-> currency]
    /\ \/ /\ Falsy(cartId)
          /\ outcome' = Return(Undefined)
          /\ pc' = "settled"
          /\ UNCHANGED <<frame, request, response, res, fault, sent, fetchCount>>
       \/ /\ ~Falsy(cartId)
          /\ fetchCount < MaxFetches
          /\ fourthwallGet(Url(<<API_URL, "v1", "carts", cartId.s>>),
                           <<Param("currency", Str(currency))>>,
                           [cache |-> "no-store"])

createCart ==
    /\ CanFetch
    /\ call' = [op |-> "createCart"]
    /\ fourthwallPost(Url(<<API_URL, "v1", "carts">>),
                      [t |-> "object", items |-> Arr(<<>>)], NoFields)

addToCartItem(line) ==
    [t |-> "object", variantId |-> Get(line, "merchandiseId"),
     quantity |-> Get(line, "quantity")]

addToCart(cartId, lines) ==
    /\ CanFetch
    /\ call' = [op |-> "addToCart", cartId |-> cartId, lines |-> lines]
    /\ LET items == Arr([i \in DOMAIN lines.elems |-> addToCartItem(lines.elems[i])]) IN
       fourthwallPost(Url(<<API_URL, "v1", "carts", cartId, "add">>),
                      [t |-> "object", items |-> items],
                      [cache |-> "no-store"])

removeFromCartItem(id) == [t |-> "object", variantId |-> id]

removeFromCart(cartId, lineIds) ==
    /\ CanFetch
    /\ call' = [op |-> "removeFromCart", cartId |-> cartId, lineIds |-> lineIds]
    /\ LET items == Arr([i \in DOMAIN lineIds.elems |-> removeFromCartItem(lineIds.elems[i])]) IN
       fourthwallPost(Url(<<API_URL, "v1", "carts", cartId, "remove">>),
                      [t |-> "object", items |-> items],
                      [cache |-> "no-store"])

\* An updateCart that identifies the line by its own id.
updateCartItem_lineId(line) ==
    [t |-> "object", variantId |-> Get(line, "id"),
     quantity |-> Get(line, "quantity")]

updateCartItem(line) ==
    [t |-> "object", variantId |-> Get(line, "merchandiseId"),
     quantity |-> Get(line, "quantity")]

updateCart(cartId, lines) ==
    /\ CanFetch
    /\ call' = [op |-> "updateCart", cartId |-> cartId, lines |-> lines]
    /\ LET items == Arr([i \in DOMAIN lines.elems |-> updateCartItem(lines.elems[i])]) IN
       fourthwallPost(Url(<<API_URL, "v1", "carts", cartId, "change">>),
                      [t |-> "object", items |-> items],
                      [cache |-> "no-store"])

(* --------------------- the transport settles, the helper resumes ------- *)

\* A helper that issues the request again when fetch() rejects.
FetchRejects_retry(e) ==
    /\ pc = "fetch"
    /\ sent < 2
    /\ sent' = sent + 1
    /\ fetchCount' = fetchCount + 1
    /\ UNCHANGED <<pc, call, frame, request, response, res, fault, outcome>>

\* fetch() rejects: the helper's catch throws, the operation's await rethrows.
FetchRejects(e) ==
    /\ pc = "fetch"
    /\ fault' = e
    /\ outcome' = Throw(Caught(frame, e))
    /\ pc' = "settled"
    /\ UNCHANGED <<call, frame, request, response, res, sent, fetchCount>>

\* fetch() resolves with a response of any status; the helper awaits json().
FetchResolves(status, text) ==
    /\ pc = "fetch"
    /\ response' = [status |-> status, text |-> text]
    /\ pc' = "json"
    /\ UNCHANGED <<call, frame, request, res, fault, outcome, sent, fetchCount>>

\* result.json() rejects: the same catch block.
JsonRejects ==
    /\ pc = "json"
    /\ response.text.raw # "json"
    /\ fault' = SyntaxErrorOf(response.text)
    /\ outcome' = Throw(Caught(frame, fault'))
    /\ pc' = "settled"
    /\ UNCHANGED <<call, frame, request, response, res, sent, fetchCount>>

\* result.json() resolves: the helper returns {status, body} and the operation
\* runs to its end.
JsonResolves ==
    /\ pc = "json"
    /\ response.text.raw = "json"
    /\ res' = [status |-> response.status, body |-> response.text.value]
    /\ outcome' = After(call, res')
    /\ pc' = "settled"
    /\ UNCHANGED <<call, frame, request, response, fault, sent, fetchCount>>

\* The caller, which awaited the operation, takes the outcome and goes on.
CallerContinues ==
    /\ pc = "settled"
    /\ pc' = "idle"
    /\ call' = NoCall
    /\ frame' = None
    /\ request' = None
    /\ response' = None
    /\ res' = None
    /\ fault' = None
    /\ outcome' = Pending
    /\ sent' = 0
    /\ UNCHANGED fetchCount

Next ==
    \/ getCollections
    \/ \E c \in Slugs, cur \in Currencies, l \in Limits :
          getCollectionProducts(c, cur, l)
    \/ \E h \in Slugs, cur \in Currencies : getProduct(h, cur)
    \/ \E id \in AbsentCartIds \cup {Str(c) : c \in CartIds}, cur \in Currencies :
          getCart(id, cur)
    \/ createCart
    \/ \E id \in CartIds, ls \in SeqsUpTo(AddLines, MaxLines) : addToCart(id, Arr(ls))
    \/ \E id \in CartIds, ls \in SeqsUpTo({Str(i) : i \in LineIds}, MaxLines) :
          removeFromCart(id, Arr(ls))
    \/ \E id \in CartIds, ls \in SeqsUpTo(UpdateLines, MaxLines) :
          updateCart(id, Arr(ls))
    \/ \E e \in NetworkErrors : FetchRejects(e)
    \/ \E s \in Statuses, t \in Texts : FetchResolves(s, t)
    \/ JsonRejects
    \/ JsonResolves
    \/ CallerContinues

Spec == Init /\ [][Next]_vars

(* ======================================================================= *)
(*                              the properties                             *)
(* ======================================================================= *)

GetOps == {"getCollections", "getCollectionProducts", "getProduct", "getCart"}

MutationOps == {"createCart", "addToCart", "removeFromCart", "updateCart"}

\* The resource of each operation, as the interface table lists it.
Endpoint(c) ==
    CASE c.op = "getCollections" ->
           Url(<<API_URL, "api", "public", "v1.0", "collections">>)
      [] c.op = "getCollectionProducts" ->
           Url(<<API_URL, "v1", "collections", c.collection, "products">>)
      [] c.op = "getProduct" -> Url(<<API_URL, "v1", "products", c.handle>>)
      [] c.op = "getCart" -> Url(<<API_URL, "v1", "carts", c.cartId.s>>)
      [] c.op = "createCart" -> Url(<<API_URL, "v1", "carts">>)
      [] c.op = "addToCart" -> Url(<<API_URL, "v1", "carts", c.cartId, "add">>)
      [] c.op = "removeFromCart" -> Url(<<API_URL, "v1", "carts", c.cartId, "remove">>)
      [] c.op = "updateCart" -> Url(<<API_URL, "v1", "carts", c.cartId, "change">>)

\* The items list each mutation is to send for its input.
ItemsFor(c) ==
    CASE c.op = "createCart" -> <<>>
      [] c.op \in {"addToCart", "updateCart"} ->
           [i \in DOMAIN c.lines.elems |->
              [t |-> "object",
               variantId |-> c.lines.elems[i].merchandiseId,
               quantity |-> c.lines.elems[i].quantity]]
      [] c.op = "removeFromCart" ->
           [i \in DOMAIN c.lineIds.elems |->
              [t |-> "object", variantId |-> c.lineIds.elems[i]]]

PayloadFor(c) == [t |-> "object", items |-> Arr(ItemsFor(c))]

TokenParam == Param("storefront_token", STOREFRONT_TOKEN)

(* ---------------------------------- C1 --------------------------------- *)

AbsentGetCart(c) == c.op = "getCart" /\ c.cartId \in {Undefined, Str("")}

\* C1: getCart called with an absent cart id (undefined or the empty string),
\* for any currency, resolves to undefined in the step of the call itself, and
\* that call issues no HTTP request: the count of fetch() calls is the same
\* after the call as before it, and nothing is in flight for it.
C1_AbsentCartIdNoRequest ==
    /\ [](AbsentGetCart(call) =>
            /\ pc = "settled"
            /\ outcome = Return(Undefined)
            /\ sent = 0
            /\ request = None)
    /\ [][(pc = "idle" /\ AbsentGetCart(call')) =>
            /\ pc' = "settled"
            /\ outcome' = Return(Undefined)
            /\ fetchCount' = fetchCount]_vars

C1_Witness ==
    /\ pc = "settled"
    /\ call.op = "getCart"
    /\ call.cartId = Str("")
    /\ outcome = Return(Undefined)
    /\ fetchCount = 1

(* ---------------------------------- C2 --------------------------------- *)

\* C2: every HTTP request issued by a cart mutation operation (createCart,
\* addToCart, removeFromCart, updateCart) uses method POST and carries the
\* cache directive no-store.
C2_MutationsPostNoStore ==
    (request # None /\ call.op \in MutationOps) =>
        /\ request.init.method = "POST"
        /\ "cache" \in DOMAIN request.init
        /\ request.init.cache = "no-store"

(* ---------------------------------- C3 --------------------------------- *)

GetFailed ==
    /\ pc = "settled"
    /\ call.op \in GetOps
    /\ fault # None

\* C3 as stated: a GET-based operation whose fetch or JSON parse fails fails
\* with an error carrying the original cause and the requested URL, the URL
\* the GET was issued to.
C3_ErrorCarriesRequestedUrl ==
    GetFailed =>
        /\ outcome.kind = "throw"
        /\ outcome.value.error = fault
        /\ outcome.value.url = request.url

\* C3, amended: a GET-based operation whose fetch or JSON parse fails fails
\* with exactly {error, url}: the original cause and the operation's resource
\* URL, which is the requested URL without its query parameters and token.  It
\* fails in no other way and returns no value.
C3_ErrorCarriesResourceUrl ==
    GetFailed =>
        /\ outcome = Throw([error |-> fault, url |-> Endpoint(call)])
        /\ outcome.value.url = [request.url EXCEPT !.search = <<>>]
        /\ outcome.value.url # request.url
        /\ res = None

C3_Witness ==
    /\ GetFailed
    /\ call.op = "getCollectionProducts"
    /\ fault.name = "SyntaxError"
    /\ outcome.kind = "throw"

(* ---------------------------------- C4 --------------------------------- *)

PostFailed ==
    /\ pc = "settled"
    /\ call.op \in MutationOps
    /\ fault # None

\* C4: a POST-based operation whose fetch or JSON parse fails fails with an
\* error carrying the underlying cause, the resource URL, and the payload that
\* was being sent: the items list built from the caller's input, the one whose
\* serialization is the request's body.
C4_PostErrorCarriesPayload ==
    PostFailed =>
        /\ outcome = Throw([error |-> fault, url |-> Endpoint(call),
                            data |-> PayloadFor(call)])
        /\ request.init.body = [t |-> "json", text |-> outcome.value.data]
        /\ res = None

C4_Witness ==
    /\ PostFailed
    /\ call.op = "addToCart"
    /\ Len(call.lines.elems) = 2
    /\ fault.name = "TypeError"
    /\ outcome.kind = "throw"

(* ---------------------------------- C5 --------------------------------- *)

HasResultsField(body) == body.t = "object" /\ "results" \in DOMAIN body

\* C5: getCollectionProducts, when the provider's parsed response body (a JSON
\* value, whatever the status) has no results field, returns the empty
\* sequence and does not raise; when the field is present it returns the
\* reshape of exactly those results.
C5_NoResultsFieldIsEmpty ==
    (/\ pc = "settled"
     /\ call.op = "getCollectionProducts"
     /\ res # None
     /\ res.body # Undefined) =>
        IF HasResultsField(res.body)
        THEN outcome = Return(reshapeProducts(res.body.results))
        ELSE outcome = Return(Arr(<<>>))

(* ---------------------------------- C6 --------------------------------- *)

CollectionsAnswered ==
    /\ pc = "settled"
    /\ call.op = "getCollections"
    /\ res # None
    /\ HasResultsField(res.body)

\* C6: getCollections returns a sequence of the same length and in the same
\* order as the provider's results list, element i being {handle:
\* results[i].slug, title: results[i].name, description:
\* results[i].description}; on empty results it returns the empty sequence and
\* does not fail.
C6_CollectionsMapped ==
    CollectionsAnswered =>
        LET results == res.body.results.elems IN
        /\ outcome.kind = "return"
        /\ outcome.value.t = "array"
        /\ Len(outcome.value.elems) = Len(results)
        /\ \A i \in 1..Len(results) :
              outcome.value.elems[i] =
                 [t |-> "object",
                  handle |-> results[i].slug,
                  title |-> results[i].name,
                  description |-> results[i].description]
        /\ (results = <<>> => outcome = Return(Arr(<<>>)))

C6_Witness ==
    /\ CollectionsAnswered
    /\ Len(res.body.results.elems) = 2
    /\ res.body.results.elems[1] # res.body.results.elems[2]
    /\ outcome.kind = "return"
    /\ outcome.value.elems[1].handle = Str("mugs")

(* ---------------------------------- C7 --------------------------------- *)

ProductAnswered ==
    /\ pc = "settled"
    /\ call.op = "getProduct"
    /\ response # None

\* C7 as stated: getProduct, when the provider's body is undefined or empty,
\* returns undefined and never throws.
C7_EmptyBodyIsUndefined ==
    (/\ ProductAnswered
     /\ \/ response.text.raw = "empty"
        \/ (response.text.raw = "json" /\ response.text.value = Undefined)) =>
        outcome = Return(Undefined)

\* C7, amended: getProduct returns undefined and does not throw when the
\* provider's body parses to an absent value (undefined or null); a response
\* whose body is empty text cannot be parsed, and getProduct then fails with
\* the transport error {error, url}.
C7_AbsentBodyIsUndefined ==
    ProductAnswered =>
        /\ (/\ response.text.raw = "json"
            /\ response.text.value \in {Undefined, Null}) =>
               outcome = Return(Undefined)
        /\ response.text.raw = "empty" =>
               outcome = Throw([error |-> SyntaxErrorOf([raw |-> "empty"]),
                                url |-> Endpoint(call)])

C7_Witness ==
    /\ ProductAnswered
    /\ response.text.raw = "json"
    /\ response.text.value = Null
    /\ outcome = Return(Undefined)

(* ---------------------------------- C8 --------------------------------- *)

LineOps == {"addToCart", "removeFromCart", "updateCart"}

\* C8: for addToCart, removeFromCart and updateCart the POSTed body is
\* {items: L}, sent to the cart's /add, /remove or /change endpoint, where L
\* has the length and order of the input list: item i is exactly {variantId:
\* lines[i].merchandiseId, quantity: lines[i].quantity} for addToCart and
\* updateCart and exactly {variantId: lineIds[i]} for removeFromCart, and an
\* updateCart line's own id appears nowhere in the request.
C8_ItemsFollowInput ==
    (request # None /\ call.op \in LineOps) =>
        LET input == IF call.op = "removeFromCart"
                     THEN call.lineIds.elems ELSE call.lines.elems
            verb == CASE call.op = "addToCart" -> "add"
                      [] call.op = "removeFromCart" -> "remove"
                      [] call.op = "updateCart" -> "change"
            body == request.init.body
        IN
        /\ request.init.method = "POST"
        /\ request.url.path = <<API_URL, "v1", "carts", call.cartId, verb>>
        /\ body.t = "json"
        /\ DOMAIN body.text = {"t", "items"}
        /\ Len(body.text.items.elems) = Len(input)
        /\ \A i \in 1..Len(input) :
              LET item == body.text.items.elems[i] IN
              IF call.op = "removeFromCart"
              THEN /\ DOMAIN item = {"t", "variantId"}
                   /\ item.variantId = input[i]
              ELSE /\ DOMAIN item = {"t", "variantId", "quantity"}
                   /\ item.variantId = input[i].merchandiseId
                   /\ item.quantity = input[i].quantity
                   /\ call.op = "updateCart" =>
                         \A k \in DOMAIN item \ {"t"} : item[k] # input[i].id

C8_Witness ==
    /\ request # None
    /\ call.op = "updateCart"
    /\ Len(call.lines.elems) = 2
    /\ call.lines.elems[1].id # call.lines.elems[2].id
    /\ call.lines.elems[1].merchandiseId # call.lines.elems[2].merchandiseId

(* ---------------------------------- C9 --------------------------------- *)

LimitText(l) ==
    CASE l = Num(0) -> "0"
      [] l = Num(5) -> "5"

\* The caller's query parameters each GET is to carry, in mapping order.
CallerParams(c) ==
    CASE c.op = "getCollections" -> <<>>
      [] c.op = "getCollectionProducts" ->
           <<Param("currency", c.currency)>>
              \o (IF c.limit = Undefined THEN <<>>
                  ELSE <<Param("limit", LimitText(c.limit))>>)
      [] c.op \in {"getProduct", "getCart"} -> <<Param("currency", c.currency)>>

\* C9: every HTTP request, GET or POST, carries the fixed storefront token as
\* a query parameter exactly once; on a GET it comes after the caller's query
\* parameters, which appear in mapping order with every absent one (limit in
\* getCollectionProducts) omitted.
C9_TokenOnceAndLast ==
    request # None =>
        LET search == request.url.search IN
        /\ Cardinality({i \in DOMAIN search : search[i].key = "storefront_token"}) = 1
        /\ search[Len(search)] = TokenParam
        /\ call.op \in GetOps =>
              /\ request.init.method = "GET"
              /\ search = CallerParams(call) \o <<TokenParam>>
        /\ call.op \in MutationOps => search = <<TokenParam>>

C9_Witness ==
    /\ request # None
    /\ call.op = "getCollectionProducts"
    /\ call.limit = Undefined
    /\ Len(request.url.search) = 2

(* ---------------------------------- C10 -------------------------------- *)

\* C10: no retry and no status inspection.  An invocation issues at most one
\* HTTP request, and exactly one unless it is getCart short-circuiting; a
\* transport failure ends the invocation with the error handed to the caller
\* and no second request; a response of any status whose body parses makes the
\* helper return {status, body} rather than fail.
C10_OneRequestNoStatusCheck ==
    /\ sent <= 1
    /\ pc \in {"fetch", "json"} => sent = 1
    /\ pc = "settled" => (sent = 0 <=> AbsentGetCart(call))
    /\ fault # None =>
          /\ pc = "settled"
          /\ sent = 1
          /\ outcome.kind = "throw"
          /\ outcome.value.error = fault
    /\ (pc = "settled" /\ response # None /\ response.text.raw = "json") =>
          /\ fault = None
          /\ res = [status |-> response.status, body |-> response.text.value]
          /\ outcome.kind = "throw" => outcome.value = TypeError

C10_Witness ==
    /\ pc = "settled"
    /\ response # None
    /\ response.status = 500
    /\ res # None
    /\ res.status = 500
    /\ outcome.kind = "return"

====
